---- MODULE Spec2Model ----
(***************************************************************************)
(* Model of msgraph-toolkit: the add_attachment transfer of Mails /        *)
(* AsyncMails (inline strategy and upload-session strategy) and the scope  *)
(* validation of the Drives / AsyncDrives operations.  The blocking and    *)
(* the cooperative variants have the same code up to await, so one model   *)
(* stands for both; an action is the code between two network awaits.      *)
(*                                                                         *)
(* Spec:       one call of add_attachment, of a drive operation, of        *)
(*             create_message or of send_message.                          *)
(* SpecLive:   add_attachment alone, every request being answered.         *)
(* SpecClient: construction of the client, blocking or cooperative, then   *)
(*             calls of get_token, list_messages, update_item, get_item    *)
(*             and create_folder one after another.                        *)
(* SpecRace:   two calls of list_users running together on one client.     *)
(* SpecXfer:   two session transfers of add_attachment running together    *)
(*             on one client.                                              *)
(***************************************************************************)
EXTENDS Integers, Sequences, FiniteSets, TLC

VARIABLES
    token,      \* client.token: the cached bearer token, or None
    token0,     \* history: client.token when the call began
    pc,         \* position of the call under way
    op,         \* name of the operation called ("none" before the call)
    args,       \* arguments and locals of the call
    start,      \* add_attachment: loop variable of the chunk loop
    session,    \* add_attachment: the negotiated session, or None
    log,        \* every network request issued, in order, with its answer
    result,     \* what the call returned or raised
    response,   \* the last answer of the network: its status and what its body holds
    config,     \* the class of the client and the credentials it was constructed with
    calls,      \* history: the number of calls begun on the client
    tasks       \* concurrent calls: the position and locals of each task

vars == <<token, token0, pc, op, args, start, session, log, result,
          response, config, calls, tasks>>

\* what only the specifications of several calls change
others == <<config, calls, tasks>>

None == "None"

-----------------------------------------------------------------------------
(* Program constants                                                       *)

MiB == 1024 * 1024

\* mails.py:495  if file_size <= 3 * 1024 * 1024
InlineLimit == 3 * 1024 * 1024

\* mails.py:619  len(content_bytes) > 3 * 1024 * 1024
RawLimit == 3 * 1024 * 1024

\* mails.py:507  if file_size > 150 * 1024 * 1024
SessionCap == 150 * 1024 * 1024

\* mails.py:519  chunk_size = 4 * 1024 * 1024
chunk_size == 4 * 1024 * 1024

-----------------------------------------------------------------------------
(* Bounds of the model                                                     *)

\* payload sizes run over the chunk boundaries up to MaxChunks chunks
MaxChunks == 38

\* payload sizes tried: around every multiple of the chunk size, and around
\* the inline threshold, the encoded-length limit and the cap
Edges == {0, 1, (3 * RawLimit) \div 4, InlineLimit, 10 * MiB, SessionCap}

Sizes ==
    {n \in {k * chunk_size + d : k \in 0..MaxChunks, d \in {-1, 0, 1}}
           \cup {e + d : e \in Edges, d \in {-1, 0, 1}} : n >= 0}

UserIds == {None, "u1"}
MessageIds == {"", "m1"}
Tokens == {"t1"}

\* status 0 stands for a transport failure (no response at all)
TransportFailure == 0
MailStatuses == {200, 201, 400, 401, 403, 404, 413, 500, 504, TransportFailure}
SessionStatuses == {200, 201, 401, 404, 500, TransportFailure}

-----------------------------------------------------------------------------
(* Pure helpers                                                            *)

Min(a, b) == IF a <= b THEN a ELSE b
Max(a, b) == IF a >= b THEN a ELSE b

\* httpx Response.raise_for_status: no exception for a 2xx answer
IsSuccess(status) == status \in 200..299

\* len(base64.b64encode(content).decode()) for len(content) = n
B64Len(n) == 4 * ((n + 2) \div 3)

\* len(content[a:b]) for len(content) = n and 0 <= a <= b
SliceLen(n, a, b) == Max(0, Min(b, n) - Min(a, n))

\* f"{base_url}/users/{user_id}" if user_id else f"{base_url}/me"
MailBase(user_id) == IF user_id # None THEN <<"users", user_id>> ELSE <<"me">>

Request(kind, url, s, e, t, bearer) ==
    [kind |-> kind, url |-> url, start |-> s, end |-> e, total |-> t,
     bearer |-> bearer, ack |-> "pending"]

Raised(exc, status) == [kind |-> "raised", exc |-> exc, status |-> status, value |-> None]
Returned(value) == [kind |-> "returned", exc |-> None, status |-> 200, value |-> value]
NoSession == [negotiated |-> FALSE, uploadUrl |-> None]
NoResponse == [status |-> -1, flag |-> FALSE, text |-> ""]
Response(status, flag) == [status |-> status, flag |-> flag, text |-> ""]
\* an answer whose body is looked at as text
ResponseText(status, text) == [status |-> status, flag |-> text # "", text |-> text]
Privileges(priv) == IF priv THEN "insufficient privileges" ELSE ""
NoResult == [kind |-> "none", exc |-> None, status |-> -1, value |-> None]

\* the last request of l is answered: with a 2xx status, or with anything else
Answered(l, status) ==
    [l EXCEPT ![Len(l)].ack = IF status \in 200..299 THEN "2xx" ELSE "error"]

-----------------------------------------------------------------------------
(* The client                                                              *)

\* base.py:57  self.is_delegated = False, never set elsewhere
is_delegated == FALSE

TokenStatuses == {200, 400, 401, TransportFailure}

\* get_token: what the answer of the token endpoint leads to
\* (raise_for_status, then the access_token check, then the assignment)
GetTokenOutcome(status, hasField) ==
    IF status = TransportFailure THEN Raised("TransportError", status)
    ELSE IF ~IsSuccess(status) THEN Raised("HTTPStatusError", status)
    ELSE IF ~hasField THEN Raised("Exception", status)
    ELSE NoResult

TokenRequest == Request("token", <<"token_url">>, -1, -1, -1, None)

-----------------------------------------------------------------------------
(* Mails.add_attachment / AsyncMails.add_attachment                        *)

AttachUrl(a) == MailBase(a.user_id) \o <<"messages", a.message_id, "attachments">>
SessionUrl(a) ==
    MailBase(a.user_id) \o <<"messages", a.message_id, "attachments", "createUploadSession">>

\* except httpx.HTTPStatusError of _add_attachment_raw
RawError(status, priv) ==
    IF status = TransportFailure THEN Raised("TransportError", status)
    ELSE IF status = 400 /\ priv THEN Raised("PermissionError", status)
    ELSE IF status = 401 THEN Raised("PermissionError", status)
    ELSE IF status = 403 THEN Raised("PermissionError", status)
    ELSE IF status = 404 THEN Raised("ValueError", status)
    ELSE IF status = 413 THEN Raised("ValueError", status)
    ELSE Raised("HTTPStatusError", status)

\* raise_for_status of _create_upload_session and _upload_chunk: nothing is caught
SessionError(status) ==
    IF status = TransportFailure THEN Raised("TransportError", status)
    ELSE Raised("HTTPStatusError", status)

\* the size test of _add_attachment_raw, on the encoded string
RawTooLong(a) == B64Len(a.file_size) # 0 /\ B64Len(a.file_size) > RawLimit

\* _add_attachment_raw once a token is there: the validations, then the POST
RawBody(a, tok, l) ==
    IF (a.user_id = None /\ ~is_delegated) \/ a.message_id = "" \/ RawTooLong(a)
    THEN /\ log' = l
         /\ pc' = "Failed"
         /\ result' = Raised("ValueError", -1)
    ELSE /\ log' = Append(l, Request("attach", AttachUrl(a), -1, -1, B64Len(a.file_size), tok))
         /\ pc' = "raw_post"
         /\ result' = NoResult

\* _create_upload_session once a token is there: the POST of the negotiation
SessionBody(a, tok, l) ==
    /\ log' = Append(l, Request("negotiate", SessionUrl(a), -1, -1, a.file_size, tok))
    /\ pc' = "negotiate"
    /\ result' = NoResult

\* the strategy is chosen by the size of the payload
UsesInline(size) == size <= InlineLimit

\* variant: no cap on the size of a session transfer
OverCapNever(size) == FALSE

OverCap(size) == size > SessionCap

\* the call, up to its first network request
AddAttachment(file_path, has_content, has_name, size, user_id, message_id) ==
    /\ pc = "NotStarted"
    /\ op' = "add_attachment"
    /\ args' = [file_path |-> file_path, has_content |-> has_content, has_name |-> has_name,
                 file_size |-> size, user_id |-> user_id, message_id |-> message_id]
    /\ UNCHANGED <<token, token0, start, session>>
    /\ IF \/ (file_path = None /\ (~has_content \/ ~has_name))
          \/ (file_path # None /\ (has_content \/ has_name))
       THEN /\ pc' = "Failed" /\ result' = Raised("ValueError", -1) /\ log' = log
       ELSE IF file_path = "missing"
       THEN /\ pc' = "Failed" /\ result' = Raised("FileNotFoundError", -1) /\ log' = log
       ELSE IF UsesInline(size)
       THEN IF token = None
            THEN /\ log' = Append(log, TokenRequest)
                 /\ pc' = "raw_token"
                 /\ result' = NoResult
            ELSE RawBody(args', token, log)
       ELSE IF OverCap(size)
       THEN /\ pc' = "Failed" /\ result' = Raised("ValueError", -1) /\ log' = log
       ELSE IF token = None
            THEN /\ log' = Append(log, TokenRequest)
                 /\ pc' = "sess_token"
                 /\ result' = NoResult
            ELSE SessionBody(args', token, log)

\* the answer to the inline POST
RawReply(status, priv) ==
    /\ pc = "raw_post"
    /\ UNCHANGED <<token, token0, op, args, start, session>>
    /\ log' = Answered(log, status)
    /\ IF IsSuccess(status)
       THEN /\ pc' = "Done" /\ result' = Returned("attachment")
       ELSE /\ pc' = "Failed" /\ result' = RawError(status, priv)

\* variant: a failed negotiation is tried again
NegotiateReplyRetrying(status, hasUrl) ==
    /\ pc = "negotiate"
    /\ UNCHANGED <<token, token0, op, args>>
    /\ IF IsSuccess(status)
       THEN /\ log' = Answered(log, status)
            /\ session' = [negotiated |-> TRUE, uploadUrl |-> IF hasUrl THEN "upload1" ELSE None]
            /\ start' = 0
            /\ pc' = "SessionNegotiated"
            /\ result' = NoResult
       ELSE /\ UNCHANGED <<session, start>>
            /\ Len(log) < 3
            /\ SessionBody(args, token, Answered(log, status))

\* the answer to createUploadSession
NegotiateReply(status, hasUrl) ==
    /\ pc = "negotiate"
    /\ UNCHANGED <<token, token0, op, args>>
    /\ log' = Answered(log, status)
    /\ IF IsSuccess(status)
       THEN /\ session' = [negotiated |-> TRUE, uploadUrl |-> IF hasUrl THEN "upload1" ELSE None]
            /\ start' = 0
            /\ pc' = "SessionNegotiated"
            /\ result' = NoResult
       ELSE /\ UNCHANGED <<session, start>>
            /\ pc' = "Failed"
            /\ result' = SessionError(status)

\* variant: the end of a chunk taken from the chunk size, not from the slice
ChunkEndFullChunk(size, s) == s + chunk_size - 1

\* chunk = content[start:start + chunk_size]; end = start + len(chunk) - 1
ChunkEnd(size, s) == s + SliceLen(size, s, s + chunk_size) - 1

ChunkRequest(a, url, s) == Request("chunk", <<url>>, s, ChunkEnd(a.file_size, s), a.file_size, None)

\* the next value of the loop variable
\* variant: the loop variable starts again from 0 after the second chunk
NextStartRewinding(s) == IF s + chunk_size >= 2 * chunk_size THEN 0 ELSE s + chunk_size

\* start of the next turn of range(0, file_size, chunk_size)
NextStart(s) == s + chunk_size

\* variant: the loop bound is inclusive, range(0, file_size + 1, chunk_size)
LoopTurnInclusive(a, sess, s, l) ==
    IF s <= a.file_size
    THEN /\ log' = Append(l, ChunkRequest(a, sess.uploadUrl, s))
         /\ pc' = "Uploading"
         /\ result' = NoResult
    ELSE /\ log' = l /\ pc' = "Done" /\ result' = Returned("session")

\* variant: the transfer returns after the first acknowledged chunk
LoopTurnReturnsEarly(a, sess, s, l) ==
    IF s < a.file_size /\ s = 0
    THEN /\ log' = Append(l, ChunkRequest(a, sess.uploadUrl, s))
         /\ pc' = "Uploading"
         /\ result' = NoResult
    ELSE /\ log' = l /\ pc' = "Done" /\ result' = Returned("session")

\* one turn of the for loop at loop value s: the PUT of the chunk, or the return
LoopTurn(a, sess, s, l) ==
    IF s < a.file_size
    THEN IF sess.uploadUrl = None
         THEN /\ log' = l /\ pc' = "Failed" /\ result' = Raised("KeyError", -1)
         ELSE /\ log' = Append(l, ChunkRequest(a, sess.uploadUrl, s))
              /\ pc' = "Uploading"
              /\ result' = NoResult
    ELSE /\ log' = l /\ pc' = "Done" /\ result' = Returned("session")

\* the loop is entered with the negotiated session
FirstChunk ==
    /\ pc = "SessionNegotiated"
    /\ UNCHANGED <<token, token0, op, args, start, session, response, others>>
    /\ LoopTurn(args, session, start, log)

\* variant: the status of a chunk is not looked at, the loop goes on
ChunkFailureIgnored(status, l) ==
    /\ start' = NextStart(start)
    /\ LoopTurn(args, session, start', l)

\* variant: a failed chunk is sent again
ChunkFailureRetried(status, l) ==
    /\ UNCHANGED start
    /\ Len(l) < 4
    /\ LoopTurn(args, session, start, l)

\* what the transfer does after a chunk that failed
AfterChunkFailure(status, l) ==
    /\ UNCHANGED start
    /\ log' = l
    /\ pc' = "Failed"
    /\ result' = SessionError(status)

\* the answer to the PUT of a chunk
ChunkReply(status) ==
    /\ pc = "Uploading"
    /\ UNCHANGED <<token, token0, op, args, session>>
    /\ IF IsSuccess(status)
       THEN /\ start' = NextStart(start)
            /\ LoopTurn(args, session, start', Answered(log, status))
       ELSE AfterChunkFailure(status, Answered(log, status))

-----------------------------------------------------------------------------
(* Drives / AsyncDrives: one call of a drive operation                     *)

\* a name read before any branch assigned it (UnboundLocalError when used)
Unbound == <<"UNBOUND">>

\* "if x:" on an optional string
Truthy(v) == v # None /\ v # ""

ScopeKeys == {"drive_id", "user_id", "group_id", "site_id"}

\* [i for i in [drive_id, user_id, group_id, site_id] if i is not None]
Identifiers(a) == {k \in ScopeKeys : a[k] # None}

\* len(identifiers) > 1
TooManyIdentifiers(a) == Cardinality(Identifiers(a)) > 1

\* the if / elif chain over drive_id, user_id, group_id, site_id; dflt is what
\* the else branch gives
BaseUrl(a, dflt) ==
    IF Truthy(a.drive_id) THEN <<"drives", a.drive_id>>
    ELSE IF Truthy(a.user_id) THEN <<"users", a.user_id, "drive">>
    ELSE IF Truthy(a.group_id) THEN <<"groups", a.group_id, "drive">>
    ELSE IF Truthy(a.site_id) THEN <<"sites", a.site_id, "drive">>
    ELSE dflt

MeDrive == <<"me", "drive">>

\* f"{base_url}/..." : the name base_url must be bound
Under(base, rest) == IF base = Unbound THEN Unbound ELSE base \o rest

Rejected(exc) == [exc |-> exc, url |-> <<>>]
Resolved(url) ==
    IF url = Unbound THEN [exc |-> "UnboundLocalError", url |-> <<>>]
    ELSE [exc |-> None, url |-> url]

GetDrive(a) ==
    IF Cardinality(Identifiers(a)) = 0 THEN Rejected("ValueError")
    ELSE IF TooManyIdentifiers(a) THEN Rejected("ValueError")
    ELSE Resolved(BaseUrl(a, Unbound))

\* the SharePoint list branch of get_item is taken
ListBranch(a) ==
    /\ ~Truthy(a.drive_id) /\ ~Truthy(a.user_id) /\ ~Truthy(a.group_id)
    /\ Truthy(a.site_id) /\ Truthy(a.list_id)

GetItem(a) ==
    IF TooManyIdentifiers(a) THEN Rejected("ValueError")
    ELSE IF a.item_id # None /\ a.item_path # None THEN Rejected("ValueError")
    ELSE LET base == IF ListBranch(a) THEN Unbound ELSE BaseUrl(a, MeDrive)
             item_path == IF ListBranch(a) THEN None ELSE a.item_path
         IN IF item_path # None THEN Resolved(Under(base, <<"root:", item_path>>))
            ELSE IF a.item_id # None /\ ~Truthy(a.list_id)
                 THEN Resolved(Under(base, <<"items", a.item_id>>))
            ELSE Resolved(Under(base, <<"root">>))

ListItems(a) ==
    IF TooManyIdentifiers(a) THEN Rejected("ValueError")
    ELSE IF a.item_id # None /\ a.item_path # None THEN Rejected("ValueError")
    ELSE LET base == BaseUrl(a, MeDrive)
         IN IF a.item_path # None THEN Resolved(base \o <<"root:", a.item_path, "children">>)
            ELSE IF a.item_id # None /\ a.item_id # "root"
                 THEN Resolved(base \o <<"items", a.item_id, "children">>)
            ELSE Resolved(base \o <<"root", "children">>)

ListChanges(a) ==
    IF TooManyIdentifiers(a) THEN Rejected("ValueError")
    ELSE Resolved(BaseUrl(a, MeDrive) \o <<"root", "delta">>)

CreateFolder(a) ==
    IF Cardinality(Identifiers(a)) = 0 THEN Rejected("ValueError")
    ELSE IF TooManyIdentifiers(a) THEN Rejected("ValueError")
    ELSE IF a.conflict_behavior \notin {"rename", "replace", "fail"} THEN Rejected("ValueError")
    ELSE IF BaseUrl(a, Unbound) = Unbound THEN Rejected("ValueError")
    ELSE IF Truthy(a.parent_id)
         THEN Resolved(BaseUrl(a, Unbound) \o <<"items", a.parent_id, "children">>)
    ELSE Resolved(BaseUrl(a, Unbound) \o <<"root", "children">>)

UpdateItem(a) ==
    IF TooManyIdentifiers(a) THEN Rejected("ValueError")
    ELSE Resolved(BaseUrl(a, MeDrive) \o <<"items", a.item_id>>)

UploadContent(a) ==
    IF a.too_big THEN Rejected("ValueError")
    ELSE IF TooManyIdentifiers(a) THEN Rejected("ValueError")
    ELSE IF Truthy(a.item_id) /\ (Truthy(a.filename) \/ Truthy(a.parent_id))
         THEN Rejected("ValueError")
    ELSE IF ~Truthy(a.item_id) /\ (~Truthy(a.filename) \/ ~Truthy(a.parent_id))
         THEN Rejected("ValueError")
    ELSE IF Truthy(a.item_id)
         THEN Resolved(BaseUrl(a, MeDrive) \o <<"items", a.item_id, "content">>)
    ELSE Resolved(BaseUrl(a, MeDrive) \o <<"items", a.parent_id, ":", a.filename, ":", "content">>)

DownloadContent(a) ==
    IF TooManyIdentifiers(a) THEN Rejected("ValueError")
    ELSE IF a.item_id = None /\ a.item_path = None THEN Rejected("ValueError")
    ELSE IF a.item_id # None /\ a.item_path # None THEN Rejected("ValueError")
    ELSE IF a.item_path # None
         THEN Resolved(BaseUrl(a, MeDrive) \o <<"root:", a.item_path, ":", "content">>)
    ELSE Resolved(BaseUrl(a, MeDrive) \o <<"items", a.item_id, "content">>)

ListDrives(a) ==
    IF Truthy(a.resource_id) /\ Truthy(a.resource_type)
    THEN IF a.resource_type \notin {"users", "groups", "sites"}
         THEN Rejected("ValueError")
         ELSE Resolved(<<a.resource_type, a.resource_id, "drives">>)
    ELSE Resolved(<<"users", a.user_id, "drives">>)

ListFollowed(a) ==
    IF Truthy(a.user_id) THEN Resolved(<<"users", a.user_id, "drive", "following">>)
    ELSE Resolved(<<"me", "drive", "following">>)

\* the operations that take drive_id, user_id, group_id and site_id
ScopedOps ==
    {"get_drive", "get_item", "list_items", "list_changes", "create_folder",
     "update_item", "upload_content", "download_content"}

DriveOps == ScopedOps \cup {"list_drives", "list_followed"}

\* validation and URL of the operation o called with a
Prepare(o, a) ==
    CASE o = "get_drive" -> GetDrive(a)
      [] o = "get_item" -> GetItem(a)
      [] o = "list_items" -> ListItems(a)
      [] o = "list_changes" -> ListChanges(a)
      [] o = "create_folder" -> CreateFolder(a)
      [] o = "update_item" -> UpdateItem(a)
      [] o = "upload_content" -> UploadContent(a)
      [] o = "download_content" -> DownloadContent(a)
      [] o = "list_drives" -> ListDrives(a)
      [] o = "list_followed" -> ListFollowed(a)

\* the operation once a token is there: validation, URL, request
DriveBody(o, a, tok, l) ==
    LET p == Prepare(o, a)
    IN IF p.exc # None
       THEN /\ log' = l
            /\ pc' = "Failed"
            /\ result' = Raised(p.exc, -1)
       ELSE /\ log' = Append(l, Request(o, p.url, -1, -1, -1, tok))
            /\ pc' = "drive_req"
            /\ result' = NoResult

\* the call, up to its first network request
DriveCall(o, a) ==
    /\ pc = "NotStarted"
    /\ op' = o
    /\ args' = a
    /\ UNCHANGED <<token, token0, start, session>>
    /\ IF token = None
       THEN /\ log' = Append(log, TokenRequest)
            /\ pc' = "drive_token"
            /\ result' = NoResult
       ELSE DriveBody(o, a, token, log)

\* the operations with an except httpx.HTTPStatusError clause
TranslatingOps == {"create_folder", "update_item", "upload_content", "download_content"}

\* except httpx.HTTPStatusError of the operation o, where it has one
DriveExcept(o, status, priv) ==
    IF o \notin TranslatingOps THEN Raised("HTTPStatusError", status)
    ELSE IF status = 400 /\ priv THEN Raised("PermissionError", status)
    ELSE IF status \in {401, 403} THEN Raised("PermissionError", status)
    ELSE IF status = 413 /\ o = "upload_content" THEN Raised("ValueError", status)
    ELSE IF status = 404 /\ o = "download_content" THEN Raised("FileNotFoundError", status)
    ELSE Raised("HTTPStatusError", status)

\* variant: the 304 branch is missing, the answer goes to raise_for_status
DriveOutcomeWithout304(o, status, priv) ==
    IF status = TransportFailure THEN Raised("TransportError", status)
    ELSE IF status = 412 /\ o = "update_item"
         THEN [kind |-> "returned", exc |-> None, status |-> status, value |-> None]
    ELSE IF IsSuccess(status)
         THEN Returned(IF o = "download_content" THEN "content" ELSE "json")
    ELSE DriveExcept(o, status, priv)

\* variant: the 412 branch is missing, the answer goes to raise_for_status
DriveOutcomeWithout412(o, status, priv) ==
    IF status = TransportFailure THEN Raised("TransportError", status)
    ELSE IF status = 304 /\ o \in {"get_item", "download_content"}
         THEN [kind |-> "returned", exc |-> None, status |-> status, value |-> None]
    ELSE IF IsSuccess(status)
         THEN Returned(IF o = "download_content" THEN "content" ELSE "json")
    ELSE DriveExcept(o, status, priv)

\* what the answer of the API leads to
DriveOutcome(o, status, priv) ==
    IF status = TransportFailure THEN Raised("TransportError", status)
    ELSE IF status = 304 /\ o \in {"get_item", "download_content"}
         THEN [kind |-> "returned", exc |-> None, status |-> status, value |-> None]
    ELSE IF status = 412 /\ o = "update_item"
         THEN [kind |-> "returned", exc |-> None, status |-> status, value |-> None]
    ELSE IF IsSuccess(status)
         THEN Returned(IF o = "download_content" THEN "content" ELSE "json")
    ELSE DriveExcept(o, status, priv)

\* the statuses the API answers o with; 304 answers a conditional read only
DriveStatuses(o) ==
    {200, 400, 401, 403, 404, 412, 413, 500, TransportFailure}
        \cup (IF o \in {"get_item", "download_content"} THEN {304} ELSE {})

\* the answer to the request of a drive operation
DriveReply(status, priv) ==
    /\ pc = "drive_req"
    /\ UNCHANGED <<token, token0, op, args, start, session>>
    /\ log' = Answered(log, status)
    /\ result' = DriveOutcome(op, status, priv)
    /\ pc' = IF result'.kind = "returned" THEN "Done" ELSE "Failed"

\* the arguments the calls are tried with
Blank ==
    [drive_id |-> None, user_id |-> None, group_id |-> None, site_id |-> None,
     item_id |-> None, item_path |-> None, list_id |-> None, parent_id |-> None,
     filename |-> None, conflict_behavior |-> "rename", too_big |-> FALSE,
     resource_id |-> None, resource_type |-> None]

ScopeArgs ==
    {[Blank EXCEPT !.drive_id = d, !.user_id = u, !.group_id = g, !.site_id = s] :
        d \in {None, "", "d1"}, u \in {None, "", "u1"},
        g \in {None, "", "g1"}, s \in {None, "", "s1"}}

ArgsOf(o) ==
    CASE o \in {"get_drive", "list_changes"} -> ScopeArgs
      [] o = "get_item" ->
            {[b EXCEPT !.item_id = i, !.item_path = p, !.list_id = l] :
                b \in ScopeArgs, i \in {None, "i1"}, p \in {None, "p1"}, l \in {None, "l1"}}
      [] o \in {"list_items", "download_content"} ->
            {[b EXCEPT !.item_id = i, !.item_path = p] :
                b \in ScopeArgs, i \in {None, "i1"}, p \in {None, "p1"}}
      [] o = "create_folder" ->
            {[b EXCEPT !.parent_id = i, !.conflict_behavior = c] :
                b \in ScopeArgs, i \in {None, "i1"}, c \in {"rename", "keep"}}
      [] o = "update_item" -> {[b EXCEPT !.item_id = "i1"] : b \in ScopeArgs}
      [] o = "upload_content" ->
            {[b EXCEPT !.item_id = i, !.parent_id = q, !.filename = f, !.too_big = t] :
                b \in ScopeArgs, i \in {None, "i1"}, q \in {None, "i2"},
                f \in {None, "f1"}, t \in BOOLEAN}
      [] o = "list_drives" ->
            {[Blank EXCEPT !.user_id = u, !.resource_id = r, !.resource_type = t] :
                u \in {None, "u1"}, r \in {None, "r1"},
                t \in {None, "users", "groups", "sites", "drives"}}
      [] o = "list_followed" -> {[Blank EXCEPT !.user_id = u] : u \in {None, "u1"}}

-----------------------------------------------------------------------------
(* Mails.list_messages / AsyncMails.list_messages                          *)

\* what the body of an error answer says
Texts == {"", "InefficientFilter", "Invalid base64 string", "insufficient privileges"}

MessagesUrl(a) ==
    MailBase(IF Truthy(a.user_id) THEN a.user_id ELSE None)
        \o (IF Truthy(a.folder_id) THEN <<"mailFolders", a.folder_id, "messages">>
            ELSE <<"messages">>)

\* the validation of user_id, top and body_type, then the URL
ListMessages(a) ==
    IF ~Truthy(a.user_id) /\ ~is_delegated THEN Rejected("ValueError")
    ELSE IF a.has_top /\ ~(1 <= a.top /\ a.top <= 1000) THEN Rejected("ValueError")
    ELSE IF Truthy(a.body_type) /\ a.body_type \notin {"text", "html"}
         THEN Rejected("ValueError")
    ELSE Resolved(MessagesUrl(a))

\* except httpx.HTTPStatusError of list_messages
ListMessagesExcept(status, text) ==
    IF status = 400 /\ text = "InefficientFilter" THEN Raised("ValueError", status)
    ELSE IF status = 400 /\ text = "insufficient privileges"
         THEN Raised("PermissionError", status)
    ELSE IF status \in {401, 403} THEN Raised("PermissionError", status)
    ELSE IF status = 504 THEN Raised("TimeoutError", status)
    ELSE Raised("HTTPStatusError", status)

ListMessagesOutcome(status, text) ==
    IF status = TransportFailure THEN Raised("TransportError", status)
    ELSE IF IsSuccess(status) THEN Returned("json")
    ELSE ListMessagesExcept(status, text)

\* list_messages once a token is there: validation, URL, request
ListMessagesBody(a, tok, l) ==
    LET p == ListMessages(a)
    IN IF p.exc # None
       THEN /\ log' = l
            /\ pc' = "Failed"
            /\ result' = Raised(p.exc, -1)
       ELSE /\ log' = Append(l, Request("list_messages", p.url, -1, -1, -1, tok))
            /\ pc' = "mail_req"
            /\ result' = NoResult

\* the call, up to its first network request
ListMessagesCall(a) ==
    /\ pc = "NotStarted"
    /\ op' = "list_messages"
    /\ args' = a
    /\ UNCHANGED <<token, token0, start, session>>
    /\ IF token = None
       THEN /\ log' = Append(log, TokenRequest)
            /\ pc' = "mail_token"
            /\ result' = NoResult
       ELSE ListMessagesBody(a, token, log)

\* variant: a 401 makes the library drop the token it holds
ListMessagesReplyDroppingToken(status, text) ==
    /\ pc = "mail_req"
    /\ UNCHANGED <<token0, op, args, start, session>>
    /\ token' = IF status = 401 THEN None ELSE token
    /\ log' = Answered(log, status)
    /\ result' = ListMessagesOutcome(status, text)
    /\ pc' = IF result'.kind = "returned" THEN "Done" ELSE "Failed"

\* the answer to the request of list_messages
ListMessagesReply(status, text) ==
    /\ pc = "mail_req"
    /\ UNCHANGED <<token, token0, op, args, start, session>>
    /\ log' = Answered(log, status)
    /\ result' = ListMessagesOutcome(status, text)
    /\ pc' = IF result'.kind = "returned" THEN "Done" ELSE "Failed"

\* the arguments list_messages is tried with; has_top: top is not None
MessageArgs ==
    {[user_id |-> u, folder_id |-> f, has_top |-> t # -1, top |-> t, body_type |-> b] :
        u \in {None, "u1"}, f \in {None, "f1"}, t \in {-1, 0, 10}, b \in {None, "xml"}}

-----------------------------------------------------------------------------
(* Mails.create_message and Mails.send_message (and the Async ones)        *)

\* mime: mime_content is given; fields: how many of subject, body and
\* to_recipients are given; enums_ok: body_type and importance are among the
\* values allowed; headers: message_headers is absent, well formed or not
CreateMessage(a) ==
    IF ~Truthy(a.user_id) /\ ~is_delegated THEN Rejected("ValueError")
    ELSE IF a.mime /\ (a.fields # "none" \/ a.headers # "none") THEN Rejected("ValueError")
    ELSE IF ~a.mime /\ a.fields # "all" THEN Rejected("ValueError")
    ELSE IF ~a.mime /\ ~a.enums_ok THEN Rejected("ValueError")
    ELSE IF a.headers = "bad" THEN Rejected("ValueError")
    ELSE Resolved(MessagesUrl(a))

\* except httpx.HTTPStatusError of create_message
CreateMessageExcept(status, text) ==
    IF status = 400 /\ text = "Invalid base64 string" THEN Raised("ValueError", status)
    ELSE IF status = 400 /\ text = "insufficient privileges"
         THEN Raised("PermissionError", status)
    ELSE IF status \in {401, 403} THEN Raised("PermissionError", status)
    ELSE IF status = 413 THEN Raised("ValueError", status)
    ELSE Raised("HTTPStatusError", status)

SendMessage(a) ==
    IF ~Truthy(a.user_id) /\ ~is_delegated THEN Rejected("ValueError")
    ELSE IF ~Truthy(a.message_id) THEN Rejected("ValueError")
    ELSE Resolved(MailBase(a.user_id) \o <<"messages", a.message_id, "send">>)

\* except httpx.HTTPStatusError of send_message
SendMessageExcept(status, text) ==
    IF status = 400 /\ text = "insufficient privileges"
    THEN Raised("PermissionError", status)
    ELSE IF status \in {401, 403} THEN Raised("PermissionError", status)
    ELSE IF status = 404 THEN Raised("ValueError", status)
    ELSE Raised("HTTPStatusError", status)

MailOps == {"list_messages", "create_message", "send_message"}

MailPrepare(o, a) ==
    CASE o = "list_messages" -> ListMessages(a)
      [] o = "create_message" -> CreateMessage(a)
      [] o = "send_message" -> SendMessage(a)

MailExcept(o, status, text) ==
    CASE o = "list_messages" -> ListMessagesExcept(status, text)
      [] o = "create_message" -> CreateMessageExcept(status, text)
      [] o = "send_message" -> SendMessageExcept(status, text)

\* variant: a status the except clause does not name is logged and dropped
MailOutcomeSwallowing(o, status, text) ==
    IF status = TransportFailure THEN Raised("TransportError", status)
    ELSE IF IsSuccess(status)
         THEN Returned(IF o = "send_message" THEN None ELSE "json")
    ELSE IF MailExcept(o, status, text).exc = "HTTPStatusError" THEN Returned(None)
    ELSE MailExcept(o, status, text)

\* raise_for_status, return response.json() (send_message returns None)
MailOutcome(o, status, text) ==
    IF status = TransportFailure THEN Raised("TransportError", status)
    ELSE IF IsSuccess(status)
         THEN Returned(IF o = "send_message" THEN None ELSE "json")
    ELSE MailExcept(o, status, text)

\* the operation once a token is there: validation, URL, request
MailBody(o, a, tok, l) ==
    LET p == MailPrepare(o, a)
    IN IF p.exc # None
       THEN /\ log' = l
            /\ pc' = "Failed"
            /\ result' = Raised(p.exc, -1)
       ELSE /\ log' = Append(l, Request(o, p.url, -1, -1, -1, tok))
            /\ pc' = "mail_req"
            /\ result' = NoResult

\* the call, up to its first network request
MailCall(o, a) ==
    /\ pc = "NotStarted"
    /\ op' = o
    /\ args' = a
    /\ UNCHANGED <<token, token0, start, session>>
    /\ IF token = None
       THEN /\ log' = Append(log, TokenRequest)
            /\ pc' = "mail_token"
            /\ result' = NoResult
       ELSE MailBody(o, a, token, log)

\* the answer to the request of the operation
MailReply(status, text) ==
    /\ pc = "mail_req"
    /\ UNCHANGED <<token, token0, op, args, start, session>>
    /\ log' = Answered(log, status)
    /\ result' = MailOutcome(op, status, text)
    /\ pc' = IF result'.kind = "returned" THEN "Done" ELSE "Failed"

CreateArgs ==
    {[user_id |-> u, folder_id |-> None, mime |-> m, fields |-> f, enums_ok |-> e,
      headers |-> h] :
        u \in {None, "u1"}, m \in BOOLEAN, f \in {"none", "some", "all"},
        e \in BOOLEAN, h \in {"none", "ok", "bad"}}

SendArgs == {[user_id |-> u, message_id |-> m] : u \in {None, "u1"}, m \in MessageIds}

MailArgsOf(o) ==
    CASE o = "list_messages" -> MessageArgs
      [] o = "create_message" -> CreateArgs
      [] o = "send_message" -> SendArgs

MailOpStatuses == {200, 202, 302, 400, 401, 403, 404, 413, 429, 500, 504, TransportFailure}

-----------------------------------------------------------------------------
(* get_token: called by an operation that found no token, or directly      *)

\* get_token called directly: the POST is sent whatever self.token holds
GetToken ==
    /\ pc = "NotStarted"
    /\ op' = "get_token"
    /\ log' = Append(log, TokenRequest)
    /\ pc' = "token_req"
    /\ result' = NoResult
    /\ UNCHANGED <<token, token0, args, start, session>>

\* what the caller of get_token does with what get_token raised: the
\* operations whose try block encloses the call translate an HTTPStatusError
Caught(at, o, out, status, flag) ==
    IF out.exc # "HTTPStatusError" THEN out
    ELSE IF at = "raw_token" THEN RawError(status, flag)
    ELSE IF at = "drive_token" THEN DriveExcept(o, status, flag)
    ELSE IF at = "mail_token"
         THEN MailExcept(o, status, Privileges(flag))
    ELSE out

\* variant: the token field is assigned before the access_token test
TokenReplyAssigningFirst(status, flag, tk) ==
    /\ pc \in {"raw_token", "sess_token", "drive_token", "mail_token", "token_req"}
    /\ UNCHANGED <<token0, op, args, start, session>>
    /\ LET out == GetTokenOutcome(status, flag)
           l == Answered(log, status)
       IN IF out.kind = "raised"
          THEN /\ token' = IF out.exc = "Exception" THEN None ELSE token
               /\ log' = l
               /\ pc' = "Failed"
               /\ result' = Caught(pc, op, out, status, flag)
          ELSE /\ token' = tk
               /\ IF pc = "raw_token" THEN RawBody(args, tk, l)
                  ELSE IF pc = "sess_token" THEN SessionBody(args, tk, l)
                  ELSE IF pc = "drive_token" THEN DriveBody(op, args, tk, l)
                  ELSE IF pc = "mail_token" THEN MailBody(op, args, tk, l)
                  ELSE /\ log' = l
                       /\ pc' = "Done"
                       /\ result' = Returned(tk)

\* the token endpoint answers; flag: the body holds access_token (2xx), or
\* speaks of insufficient privileges (error)
TokenReply(status, flag, tk) ==
    /\ pc \in {"raw_token", "sess_token", "drive_token", "mail_token", "token_req"}
    /\ UNCHANGED <<token0, op, args, start, session>>
    /\ LET out == GetTokenOutcome(status, flag)
           l == Answered(log, status)
       IN IF out.kind = "raised"
          THEN /\ token' = token
               /\ log' = l
               /\ pc' = "Failed"
               /\ result' = Caught(pc, op, out, status, flag)
          ELSE /\ token' = tk
               /\ IF pc = "raw_token" THEN RawBody(args, tk, l)
                  ELSE IF pc = "sess_token" THEN SessionBody(args, tk, l)
                  ELSE IF pc = "drive_token" THEN DriveBody(op, args, tk, l)
                  ELSE IF pc = "mail_token" THEN MailBody(op, args, tk, l)
                  ELSE /\ log' = l
                       /\ pc' = "Done"
                       /\ result' = Returned(tk)

-----------------------------------------------------------------------------
(* The specification: one call on a client                                 *)

Init ==
    /\ token \in Tokens \cup {None}
    /\ token0 = token
    /\ pc = "NotStarted"
    /\ op = "none"
    /\ args = None
    /\ start = 0
    /\ session = NoSession
    /\ log = <<>>
    /\ result = NoResult
    /\ response = NoResponse
    /\ config = [client_id |-> "c1", client_secret |-> "s1", tenant_id |-> "n1",
                 blocking |-> FALSE]
    /\ calls = 0
    /\ tasks = <<>>

\* the caller's choice of arguments
CallAddAttachment ==
    /\ pc = "NotStarted"
    /\ UNCHANGED <<response, others>>
    /\ \E fp \in {None, "missing", "exists"}, hc \in BOOLEAN, hn \in BOOLEAN,
          size \in Sizes, u \in UserIds, m \in MessageIds :
            AddAttachment(fp, hc, hn, size, u, m)

\* the answers of the network
ReplyToken ==
    /\ pc \in {"raw_token", "sess_token", "drive_token", "mail_token", "token_req"}
    /\ UNCHANGED others
    /\ \E st \in TokenStatuses, hf \in BOOLEAN, tk \in Tokens :
            TokenReply(st, hf, tk) /\ response' = Response(st, hf)

ReplyRaw ==
    /\ pc = "raw_post"
    /\ UNCHANGED others
    /\ \E st \in MailStatuses, priv \in BOOLEAN :
            RawReply(st, priv) /\ response' = ResponseText(st, Privileges(priv))

ReplyNegotiate ==
    /\ pc = "negotiate"
    /\ UNCHANGED others
    /\ \E st \in SessionStatuses, hu \in BOOLEAN :
            NegotiateReply(st, hu) /\ response' = Response(st, hu)

ReplyChunk ==
    /\ pc = "Uploading"
    /\ UNCHANGED others
    /\ \E st \in SessionStatuses : ChunkReply(st) /\ response' = Response(st, FALSE)

CallDrive ==
    /\ pc = "NotStarted"
    /\ UNCHANGED <<response, others>>
    /\ \E o \in DriveOps : \E a \in ArgsOf(o) : DriveCall(o, a)

CallMail ==
    /\ pc = "NotStarted"
    /\ UNCHANGED <<response, others>>
    /\ \E o \in MailOps : \E a \in MailArgsOf(o) : MailCall(o, a)

ReplyMail ==
    /\ pc = "mail_req"
    /\ UNCHANGED others
    /\ \E st \in MailOpStatuses, text \in Texts :
            MailReply(st, text) /\ response' = ResponseText(st, text)

ReplyDrive ==
    /\ pc = "drive_req"
    /\ UNCHANGED others
    /\ \E st \in DriveStatuses(op), priv \in BOOLEAN :
            DriveReply(st, priv) /\ response' = ResponseText(st, Privileges(priv))

Next ==
    \/ CallAddAttachment
    \/ ReplyToken
    \/ ReplyRaw
    \/ ReplyNegotiate
    \/ FirstChunk
    \/ ReplyChunk
    \/ CallDrive
    \/ ReplyDrive
    \/ CallMail
    \/ ReplyMail

Spec == Init /\ [][Next]_vars

\* add_attachment alone, every request it issued being answered in the end
\* and the coroutine going on once it can
NextAttach ==
    \/ CallAddAttachment
    \/ ReplyToken
    \/ ReplyRaw
    \/ ReplyNegotiate
    \/ FirstChunk
    \/ ReplyChunk

SpecLive ==
    /\ Init
    /\ [][NextAttach]_vars
    /\ WF_vars(ReplyToken)
    /\ WF_vars(ReplyRaw)
    /\ WF_vars(ReplyNegotiate)
    /\ WF_vars(FirstChunk)
    /\ WF_vars(ReplyChunk)

-----------------------------------------------------------------------------
(* The client over its life: construction, then one call after another     *)

MaxCalls == 2

\* an attribute that no assignment has created
Unset == "UNSET"

Credentials == {None, "", "c1"}
ClientTokens == {"t1", "t2"}
MessageStatuses == {200, 400, 401, 403, 500, 504, TransportFailure}
ClientDriveOps == {"update_item", "get_item", "create_folder"}

\* the operations of class Drives; AsyncDrives has those of DriveOps
SyncDriveOps == DriveOps \ {"create_folder"}
ClientDriveArgs ==
    {[Blank EXCEPT !.drive_id = d, !.item_id = "i1", !.item_path = p] :
        d \in {None, "d1"}, p \in {None, "p1"}}

\* variant: only a missing credential is refused, an empty one is taken
ConstructRefusingNoneOnly(client_id, client_secret, tenant_id) ==
    /\ pc = "NoClient"
    /\ config' = [config EXCEPT !.client_id = client_id,
                                !.client_secret = client_secret,
                                !.tenant_id = tenant_id]
    /\ IF client_id = None \/ client_secret = None \/ tenant_id = None
       THEN /\ pc' = "ConfigError"
            /\ result' = Raised("ValueError", -1)
            /\ UNCHANGED <<token, token0>>
       ELSE /\ pc' = "NotStarted"
            /\ result' = NoResult
            /\ token' = None
            /\ token0' = None
    /\ UNCHANGED <<op, args, start, session, log, response, calls, tasks>>

\* MsGraphBase.__init__: the three tests, then the attributes
Construct(client_id, client_secret, tenant_id) ==
    /\ pc = "NoClient"
    /\ config' = [config EXCEPT !.client_id = client_id,
                                !.client_secret = client_secret,
                                !.tenant_id = tenant_id]
    /\ IF ~Truthy(client_id) \/ ~Truthy(client_secret) \/ ~Truthy(tenant_id)
       THEN /\ pc' = "ConfigError"
            /\ result' = Raised("ValueError", -1)
            /\ UNCHANGED <<token, token0>>
       ELSE /\ pc' = "NotStarted"
            /\ result' = NoResult
            /\ token' = None
            /\ token0' = None
    /\ UNCHANGED <<op, args, start, session, log, response, calls, tasks>>

\* the call is over: the caller has its value or its exception
Return ==
    /\ pc \in {"Done", "Failed"}
    /\ pc' = "NotStarted"
    /\ op' = "none"
    /\ args' = None
    /\ result' = NoResult
    /\ response' = NoResponse
    /\ token0' = token
    /\ UNCHANGED <<token, start, session, log, others>>

\* the caller resets the public attribute between two calls
Invalidate ==
    /\ pc = "NotStarted"
    /\ token # None
    /\ token' = None
    /\ token0' = None
    /\ UNCHANGED <<pc, op, args, start, session, log, result, response, others>>

InitClient ==
    /\ token = Unset
    /\ token0 = Unset
    /\ pc = "NoClient"
    /\ op = "none"
    /\ args = None
    /\ start = 0
    /\ session = NoSession
    /\ log = <<>>
    /\ result = NoResult
    /\ response = NoResponse
    /\ \E b \in BOOLEAN :
            config = [client_id |-> Unset, client_secret |-> Unset, tenant_id |-> Unset,
                      blocking |-> b]
    /\ calls = 0
    /\ tasks = <<>>

NewClient ==
    /\ pc = "NoClient"
    /\ \E c \in Credentials, s \in Credentials, t \in Credentials : Construct(c, s, t)

\* the next call of the caller
Began ==
    /\ pc = "NotStarted"
    /\ calls < MaxCalls
    /\ calls' = calls + 1
    /\ UNCHANGED <<response, config, tasks>>

ClientGetToken == Began /\ GetToken

ClientListMessages == Began /\ \E a \in MessageArgs : ListMessagesCall(a)

\* client.drives.o where the class has no method o
NoSuchOperation(o) ==
    /\ pc = "NotStarted"
    /\ op' = o
    /\ pc' = "Failed"
    /\ result' = Raised("AttributeError", -1)
    /\ UNCHANGED <<token, token0, args, start, session, log>>

ClientDrive ==
    /\ Began
    /\ \E o \in ClientDriveOps :
            IF config.blocking /\ o \notin SyncDriveOps
            THEN NoSuchOperation(o)
            ELSE \E a \in ClientDriveArgs : DriveCall(o, a)

ClientReplyToken ==
    /\ pc \in {"drive_token", "mail_token", "token_req"}
    /\ UNCHANGED others
    /\ \E st \in TokenStatuses, hf \in BOOLEAN, tk \in ClientTokens :
            TokenReply(st, hf, tk) /\ response' = Response(st, hf)

ReplyListMessages ==
    /\ pc = "mail_req"
    /\ UNCHANGED others
    /\ \E st \in MessageStatuses, text \in Texts :
            ListMessagesReply(st, text) /\ response' = ResponseText(st, text)

NextClient ==
    \/ NewClient
    \/ ClientGetToken
    \/ ClientListMessages
    \/ ClientDrive
    \/ ClientReplyToken
    \/ ReplyListMessages
    \/ ReplyDrive
    \/ Return
    \/ Invalidate

SpecClient == InitClient /\ [][NextClient]_vars

-----------------------------------------------------------------------------
(* Two calls of list_users running together on one client                  *)

TaskIds == {1, 2}
UserStatuses == {200, 401, 500, TransportFailure}

\* observed: the call found no token; got: what its exchange returned; nth:
\* the rank of its exchange among those completed; sent: the token its API
\* request carried; at: where its pending request is in the log
IdleTask ==
    [pc |-> "idle", observed |-> FALSE, got |-> None, nth |-> 0, sent |-> Unset,
     at |-> 0, result |-> NoResult]

Exchanged == {t \in TaskIds : tasks[t].nth > 0}

AnsweredAt(l, i, status) ==
    [l EXCEPT ![i].ack = IF IsSuccess(status) THEN "2xx" ELSE "error"]

\* url, headers with the token the client holds now, then the GET
TaskRequest(t, seen) ==
    /\ log' = Append(log, Request("list_users", <<"users">>, -1, -1, -1, token))
    /\ tasks' = [tasks EXCEPT ![t].pc = "api_req", ![t].sent = token,
                              ![t].observed = seen, ![t].at = Len(log) + 1]

\* list_users up to its first await
TaskCall(t) ==
    /\ tasks[t].pc = "idle"
    /\ UNCHANGED <<token, response>>
    /\ IF token = None
       THEN /\ log' = Append(log, TokenRequest)
            /\ tasks' = [tasks EXCEPT ![t].pc = "token_req", ![t].observed = TRUE,
                                      ![t].at = Len(log) + 1]
       ELSE TaskRequest(t, FALSE)

\* variant: an exchange that completes after another leaves the token alone
TaskTokenReplyKeepingFirst(t, status, flag, tk) ==
    /\ tasks[t].pc = "token_req"
    /\ response' = Response(status, flag)
    /\ log' = AnsweredAt(log, tasks[t].at, status)
    /\ LET out == GetTokenOutcome(status, flag)
       IN IF out.kind = "raised"
          THEN /\ token' = token
               /\ tasks' = [tasks EXCEPT ![t].pc = "Failed", ![t].result = out]
          ELSE /\ token' = IF token = None THEN tk ELSE token
               /\ tasks' = [tasks EXCEPT ![t].pc = "token_done", ![t].got = tk,
                                         ![t].nth = Cardinality(Exchanged) + 1]

\* the token endpoint answers the exchange of task t; get_token assigns the
\* token and leaves its async with block, where the task may be suspended
TaskTokenReply(t, status, flag, tk) ==
    /\ tasks[t].pc = "token_req"
    /\ response' = Response(status, flag)
    /\ log' = AnsweredAt(log, tasks[t].at, status)
    /\ LET out == GetTokenOutcome(status, flag)
       IN IF out.kind = "raised"
          THEN /\ token' = token
               /\ tasks' = [tasks EXCEPT ![t].pc = "Failed", ![t].result = out]
          ELSE /\ token' = tk
               /\ tasks' = [tasks EXCEPT ![t].pc = "token_done", ![t].got = tk,
                                         ![t].nth = Cardinality(Exchanged) + 1]

\* back in list_users after get_token
TaskResume(t) ==
    /\ tasks[t].pc = "token_done"
    /\ UNCHANGED <<token, response>>
    /\ TaskRequest(t, TRUE)

\* the answer to the GET of task t: raise_for_status, return response.json()
TaskApiReply(t, status) ==
    /\ tasks[t].pc = "api_req"
    /\ UNCHANGED token
    /\ response' = Response(status, FALSE)
    /\ log' = AnsweredAt(log, tasks[t].at, status)
    /\ tasks' = [tasks EXCEPT
            ![t].pc = IF IsSuccess(status) THEN "Done" ELSE "Failed",
            ![t].result = IF status = TransportFailure THEN Raised("TransportError", status)
                          ELSE IF IsSuccess(status) THEN Returned("json")
                          ELSE Raised("HTTPStatusError", status)]

InitRace ==
    /\ token = None
    /\ token0 = None
    /\ pc = "NotStarted"
    /\ op = "list_users"
    /\ args = None
    /\ start = 0
    /\ session = NoSession
    /\ log = <<>>
    /\ result = NoResult
    /\ response = NoResponse
    /\ config = [client_id |-> "c1", client_secret |-> "s1", tenant_id |-> "n1",
                 blocking |-> FALSE]
    /\ calls = 0
    /\ tasks = [t \in TaskIds |-> IdleTask]

\* what the two calls leave alone
single == <<token0, pc, op, args, start, session, result, config, calls>>

RaceCall == UNCHANGED single /\ \E t \in TaskIds : TaskCall(t)

RaceTokenReply ==
    /\ UNCHANGED single
    /\ \E t \in TaskIds, st \in TokenStatuses, hf \in BOOLEAN, tk \in ClientTokens :
            TaskTokenReply(t, st, hf, tk)

RaceResume == UNCHANGED single /\ \E t \in TaskIds : TaskResume(t)

RaceApiReply ==
    UNCHANGED single /\ \E t \in TaskIds, st \in UserStatuses : TaskApiReply(t, st)

NextRace ==
    \/ RaceCall
    \/ RaceTokenReply
    \/ RaceResume
    \/ RaceApiReply

SpecRace == InitRace /\ [][NextRace]_vars

-----------------------------------------------------------------------------
(* Two session transfers of add_attachment running together on one client  *)

\* payload sizes of the two transfers: one to three chunks
XferSizes == {InlineLimit + 1, chunk_size, chunk_size + 1, 2 * chunk_size + 1}

\* the arguments of transfer t, and the uploadUrl its session is given
XferArgs(t, size) ==
    [user_id |-> "u1", message_id |-> IF t = 1 THEN "m1" ELSE "m2", file_size |-> size]
UploadUrl(t) == IF t = 1 THEN "upload1" ELSE "upload2"

\* start, session: the locals of add_attachment; sent: where the requests of
\* the transfer are in the log
IdleXfer ==
    [pc |-> "idle", a |-> XferArgs(1, 0), start |-> 0, session |-> NoSession,
     sent |-> <<>>, result |-> NoResult]

XferAnswered(t, status) == AnsweredAt(log, tasks[t].sent[Len(tasks[t].sent)], status)

\* add_attachment up to the POST of _create_upload_session (token held)
XferCall(t, size) ==
    /\ tasks[t].pc = "idle"
    /\ UNCHANGED <<token, response, start, session>>
    /\ log' = Append(log, Request("negotiate", SessionUrl(XferArgs(t, size)), -1, -1,
                                  size, token))
    /\ tasks' = [tasks EXCEPT ![t].pc = "negotiate", ![t].a = XferArgs(t, size),
                              ![t].sent = <<Len(log) + 1>>]

\* the answer to the negotiation of transfer t
XferNegotiateReply(t, status, hasUrl) ==
    /\ tasks[t].pc = "negotiate"
    /\ UNCHANGED <<token, start, session>>
    /\ response' = Response(status, hasUrl)
    /\ log' = XferAnswered(t, status)
    /\ IF IsSuccess(status)
       THEN tasks' = [tasks EXCEPT
                ![t].pc = "SessionNegotiated",
                ![t].start = 0,
                ![t].session = [negotiated |-> TRUE,
                                uploadUrl |-> IF hasUrl THEN UploadUrl(t) ELSE None]]
       ELSE tasks' = [tasks EXCEPT ![t].pc = "Failed", ![t].result = SessionError(status)]

\* one turn of the for loop of transfer t, its loop variable being s
XferTurn(t, s, l) ==
    LET me == tasks[t]
    IN IF s < me.a.file_size
       THEN IF me.session.uploadUrl = None
            THEN /\ log' = l
                 /\ tasks' = [tasks EXCEPT ![t].pc = "Failed", ![t].start = s,
                                           ![t].result = Raised("KeyError", -1)]
            ELSE /\ log' = Append(l, ChunkRequest(me.a, me.session.uploadUrl, s))
                 /\ tasks' = [tasks EXCEPT ![t].pc = "Uploading", ![t].start = s,
                                           ![t].sent = Append(me.sent, Len(l) + 1)]
       ELSE /\ log' = l
            /\ tasks' = [tasks EXCEPT ![t].pc = "Done", ![t].start = s,
                                      ![t].result = Returned("session")]

XferFirstChunk(t) ==
    /\ tasks[t].pc = "SessionNegotiated"
    /\ UNCHANGED <<token, response, start, session>>
    /\ XferTurn(t, tasks[t].start, log)

\* variant: the loop variable is an attribute shared by the transfers
XferChunkReplySharingStart(t, status) ==
    /\ tasks[t].pc = "Uploading"
    /\ UNCHANGED <<token, session>>
    /\ response' = Response(status, FALSE)
    /\ IF IsSuccess(status)
       THEN /\ start' = NextStart(start)
            /\ XferTurn(t, start', XferAnswered(t, status))
       ELSE /\ start' = start
            /\ log' = XferAnswered(t, status)
            /\ tasks' = [tasks EXCEPT ![t].pc = "Failed", ![t].result = SessionError(status)]

\* the answer to the chunk of transfer t
XferChunkReply(t, status) ==
    /\ tasks[t].pc = "Uploading"
    /\ UNCHANGED <<token, session>>
    /\ response' = Response(status, FALSE)
    /\ IF IsSuccess(status)
       THEN /\ start' = start
            /\ XferTurn(t, NextStart(tasks[t].start), XferAnswered(t, status))
       ELSE /\ start' = start
            /\ log' = XferAnswered(t, status)
            /\ tasks' = [tasks EXCEPT ![t].pc = "Failed", ![t].result = SessionError(status)]

InitXfer ==
    /\ token = "t1"
    /\ token0 = "t1"
    /\ pc = "NotStarted"
    /\ op = "add_attachment"
    /\ args = None
    /\ start = 0
    /\ session = NoSession
    /\ log = <<>>
    /\ result = NoResult
    /\ response = NoResponse
    /\ config = [client_id |-> "c1", client_secret |-> "s1", tenant_id |-> "n1",
                 blocking |-> FALSE]
    /\ calls = 0
    /\ tasks = [t \in TaskIds |-> IdleXfer]

\* what the two transfers leave alone
apart == <<token0, pc, op, args, result, config, calls>>

BeginXfer == UNCHANGED apart /\ \E t \in TaskIds, size \in XferSizes : XferCall(t, size)

NegotiatedXfer ==
    /\ UNCHANGED apart
    /\ \E t \in TaskIds, st \in SessionStatuses, hu \in BOOLEAN :
            XferNegotiateReply(t, st, hu)

EnterXfer == UNCHANGED apart /\ \E t \in TaskIds : XferFirstChunk(t)

ChunkXfer ==
    UNCHANGED apart /\ \E t \in TaskIds, st \in SessionStatuses : XferChunkReply(t, st)

NextXfer ==
    \/ BeginXfer
    \/ NegotiatedXfer
    \/ EnterXfer
    \/ ChunkXfer

SpecXfer == InitXfer /\ [][NextXfer]_vars

-----------------------------------------------------------------------------
(* Vocabulary of the properties                                            *)

CeilDiv(a, b) == (a + b - 1) \div b

Finished == pc \in {"Done", "Failed"}
IsAttach == op = "add_attachment"

\* file_path alone and the file exists, or content and file_name alone
ValidSource(a) ==
    \/ (a.file_path = "exists" /\ ~a.has_content /\ ~a.has_name)
    \/ (a.file_path = None /\ a.has_content /\ a.has_name)

ValidCall(a) == ValidSource(a) /\ a.user_id # None /\ a.message_id # ""

Indices(kind) == {i \in 1..Len(log) : log[i].kind = kind}
Count(kind) == Cardinality(Indices(kind))
ChunkLog == SelectSeq(log, LAMBDA r : r.kind = "chunk")
AllAcked == \A i \in 1..Len(log) : log[i].ack = "2xx"

-----------------------------------------------------------------------------
(* C1: an add_attachment call with valid arguments, a cached token and a   *)
(* payload of at most 3 MiB issues exactly one network request, the POST   *)
(* to .../attachments, and negotiates no upload session.                   *)
C1_InlineOneRequest ==
    (IsAttach /\ Finished /\ ValidCall(args) /\ token0 # None
        /\ args.file_size <= 3 * MiB)
    => /\ Len(log) = 1
       /\ log[1].kind = "attach"
       /\ log[1].url = <<"users", args.user_id, "messages", args.message_id, "attachments">>
       /\ Count("negotiate") = 0

(* C2: with a cached token and every request succeeding, a payload of size *)
(* S, 3 MiB < S <= 150 MiB, is transferred in exactly ceil(S / 4 MiB) + 1  *)
(* requests: one negotiation, then ceil(S / 4 MiB) chunk PUTs.             *)
C2_SessionRequestCount ==
    (IsAttach /\ Finished /\ ValidSource(args) /\ token0 # None
        /\ args.file_size > 3 * MiB /\ args.file_size <= 150 * MiB
        /\ AllAcked /\ session.uploadUrl # None)
    => /\ pc = "Done"
       /\ Len(log) = CeilDiv(args.file_size, 4 * MiB) + 1
       /\ log[1].kind = "negotiate"
       /\ \A i \in 2..Len(log) : log[i].kind = "chunk"

C2_Witness ==
    /\ IsAttach /\ pc = "Done" /\ token0 # None
    /\ args.file_size = 150 * MiB
    /\ Len(log) = 39 /\ AllAcked

(* C3: the i-th chunk request (i from 0) of a transfer of S bytes declares *)
(* the range [i*C, min((i+1)*C, S) - 1] of total S, C = 4 MiB; the ranges  *)
(* are contiguous and, once the transfer is done, end at S - 1.            *)
C3_ChunkRanges ==
    IsAttach =>
    LET c == ChunkLog
        S == args.file_size
        C == 4 * MiB
    IN /\ \A i \in 1..Len(c) :
            /\ c[i].start = (i - 1) * C
            /\ c[i].end = Min(i * C, S) - 1
            /\ c[i].total = S
            /\ c[i].start <= c[i].end
       /\ \A i \in 1..(Len(c) - 1) : c[i + 1].start = c[i].end + 1
       /\ (pc = "Done" /\ result.value = "session") =>
            /\ Len(c) >= 1
            /\ c[1].start = 0
            /\ c[Len(c)].end = S - 1

C3_Witness ==
    /\ IsAttach /\ pc = "Done"
    /\ args.file_size = 10485760
    /\ [i \in 1..Len(ChunkLog) |-> <<ChunkLog[i].start, ChunkLog[i].end>>]
         = << <<0, 4194303>>, <<4194304, 8388607>>, <<8388608, 10485759>> >>

(* C4: chunk requests go out one at a time in strictly increasing offset   *)
(* order: every request but the last one issued has been acknowledged with *)
(* a 2xx status, and a chunk is sent only to the upload URL that a         *)
(* completed negotiation returned.                                         *)
C4_SequentialChunks ==
    IsAttach =>
    /\ \A i \in 1..(Len(log) - 1) : log[i].ack = "2xx"
    /\ \A i \in Indices("chunk"), j \in Indices("chunk") :
            i < j => log[i].start < log[j].start
    /\ \A i \in Indices("chunk") :
            /\ session.negotiated
            /\ log[i].url = <<session.uploadUrl>>
            /\ \E n \in Indices("negotiate") : n < i /\ log[n].ack = "2xx"

C4_Witness ==
    /\ IsAttach /\ pc = "Uploading"
    /\ Len(ChunkLog) = 3
    /\ log[Len(log)].ack = "pending"
    /\ log[Len(log) - 1].kind = "chunk" /\ log[Len(log) - 1].ack = "2xx"

(* C5: a failed chunk request fails the whole transfer: it is the last     *)
(* request of the transfer (no later chunk, no retry, no new negotiation)  *)
(* and its error reaches the caller.                                       *)
C5_ChunkFailureAborts ==
    IsAttach =>
    \A i \in Indices("chunk") :
        log[i].ack = "error" =>
            /\ i = Len(log)
            /\ pc = "Failed"
            /\ result.kind = "raised"
            /\ result.exc \in {"HTTPStatusError", "TransportError"}
            /\ Count("negotiate") = 1
            /\ \A j \in Indices("chunk") : j < i => log[j].start < log[i].start

C5_Witness ==
    /\ IsAttach /\ pc = "Failed"
    /\ Len(ChunkLog) = 3
    /\ log[Len(log)].kind = "chunk" /\ log[Len(log)].ack = "error"
    /\ result.exc = "HTTPStatusError" /\ result.status = 500

(* C6: a failed negotiation fails the transfer with the error of the       *)
(* negotiation: no chunk request is sent and the negotiation is not tried  *)
(* again.                                                                  *)
C6_NegotiationFailureFatal ==
    IsAttach =>
    \A i \in Indices("negotiate") :
        log[i].ack = "error" =>
            /\ i = Len(log)
            /\ pc = "Failed"
            /\ result.kind = "raised"
            /\ result.exc \in {"HTTPStatusError", "TransportError"}
            /\ Count("chunk") = 0
            /\ Count("negotiate") = 1

C6_Witness ==
    /\ IsAttach /\ pc = "Failed"
    /\ Count("negotiate") = 1 /\ Count("chunk") = 0
    /\ log[Len(log)].kind = "negotiate" /\ log[Len(log)].ack = "error"
    /\ result.exc = "HTTPStatusError" /\ result.status = 401

(* C7: a payload of more than 150 MiB fails with ValueError (the library's *)
(* validation error) without any network request, token cached or not; a  *)
(* payload of exactly 150 MiB goes to the session strategy.                *)
C7_OverCapNoNetwork ==
    (IsAttach /\ args.file_path # "missing") =>
    /\ args.file_size > 150 * MiB =>
            /\ pc = "Failed"
            /\ result.kind = "raised" /\ result.exc = "ValueError"
            /\ log = <<>>
            /\ token = token0
    /\ (args.file_size = 150 * MiB /\ ValidSource(args)) =>
            /\ Len(log) >= 1
            /\ log[1].kind = IF token0 = None THEN "token" ELSE "negotiate"
            /\ result.exc # "ValueError"

C7_Witness ==
    /\ IsAttach /\ pc = "Failed" /\ ValidCall(args)
    /\ args.file_size = 150 * MiB + 1
    /\ token0 = None /\ token = None
    /\ log = <<>> /\ result.exc = "ValueError"

(* C8: a transfer moves NotStarted -> Inline -> Done or NotStarted ->      *)
(* (negotiation) -> SessionNegotiated -> Uploading(1) -> ... ->            *)
(* Uploading(n) -> Done; Done follows only the acknowledged inline request *)
(* or the acknowledged last chunk, every error leads to Failed, and        *)
(* nothing happens after Done or Failed.                                   *)
Phase ==
    IF pc \in {"raw_token", "raw_post"} THEN "Inline"
    ELSE IF pc \in {"sess_token", "negotiate"} THEN "Negotiating"
    ELSE pc

Uploading == IF pc = "Uploading" THEN Len(ChunkLog) ELSE 0

LastAcked(l, kind) == Len(l) >= 1 /\ l[Len(l)].kind = kind /\ l[Len(l)].ack = "2xx"

C8_Step ==
    /\ Phase = "NotStarted" => Phase' \in {"Inline", "Negotiating", "Failed"}
    /\ Phase = "Inline" => Phase' \in {"Inline", "Done", "Failed"}
    /\ Phase = "Negotiating" => Phase' \in {"Negotiating", "SessionNegotiated", "Failed"}
    /\ Phase = "SessionNegotiated" =>
            /\ Phase' \in {"Uploading", "Failed"}
            /\ Phase' = "Uploading" => Uploading' = 1
    /\ Phase = "Uploading" =>
            /\ Phase' \in {"Uploading", "Done", "Failed"}
            /\ Phase' = "Uploading" => Uploading' = Uploading + 1
            /\ Phase' = "Done" => Uploading = CeilDiv(args.file_size, 4 * MiB)
    /\ Phase' = "Done" =>
            \/ Phase = "Inline" /\ LastAcked(log', "attach")
            \/ /\ Phase = "Uploading" /\ LastAcked(log', "chunk")
               /\ log'[Len(log')].end = args.file_size - 1
    /\ (result'.kind = "raised" \/ (Len(log') >= 1 /\ log'[Len(log')].ack = "error"))
            => Phase' = "Failed"
    /\ Phase \notin {"Done", "Failed"}

C8_StateMachine == [][IsAttach' => C8_Step]_vars

C8_Witness ==
    /\ IsAttach /\ pc = "Failed" /\ token0 = None
    /\ Len(ChunkLog) = 2
    /\ result.exc = "TransportError"

(* C9: a drive operation taking drive_id, user_id, group_id and site_id,   *)
(* called with two or more of them (any values but None), yields           *)
(* ValueError (the library's validation error) and sends nothing to the    *)
(* API.                                                                    *)
ApiRequests == {i \in 1..Len(log) : log[i].kind # "token"}

C9_TwoScopesRejected ==
    (op \in ScopedOps /\ Cardinality(Identifiers(args)) >= 2) =>
    /\ ApiRequests = {}
    /\ Finished => (result.kind = "raised" /\ result.exc = "ValueError")

(* C10: list_drives called with user_id together with a resource_id and    *)
(* resource_type pair fails with ValueError and sends no request whose     *)
(* path is built from one of the two.                                      *)
C10_ListDrivesNoPrecedence ==
    (op = "list_drives" /\ args.user_id # None
        /\ args.resource_id # None /\ args.resource_type # None) =>
    /\ ApiRequests = {}
    /\ Finished => (result.kind = "raised" /\ result.exc = "ValueError")

(* C11: a drive operation called with no scope identifier at all either    *)
(* sends its request to a path under /me or fails with ValueError (the     *)
(* library's validation error); no request goes to a path built from an    *)
(* absent identifier.                                                      *)
NoScope(o, a) ==
    IF o \in ScopedOps THEN Identifiers(a) = {}
    ELSE IF o = "list_drives"
         THEN a.user_id = None /\ a.resource_id = None /\ a.resource_type = None
    ELSE a.user_id = None

C11_NoScopeMeOrRejected ==
    (op \in DriveOps /\ NoScope(op, args)) =>
    /\ \A i \in ApiRequests :
            /\ log[i].url[1] = "me"
            /\ \A j \in 1..Len(log[i].url) : log[i].url[j] # None
    /\ (Finished /\ ApiRequests = {}) =>
            (result.kind = "raised" /\ result.exc = "ValueError")

(* C12: get_item, list_items and download_content called with both         *)
(* item_id and item_path fail with ValueError, whatever scope identifiers  *)
(* come with them.                                                         *)
C12_IdAndPathRejected ==
    (op \in {"get_item", "list_items", "download_content"}
        /\ args.item_id # None /\ args.item_path # None /\ Finished)
    => (result.kind = "raised" /\ result.exc = "ValueError")

(* C13: a call that fails the validation of its arguments (ValueError      *)
(* raised by the library itself, not derived from an answer) has sent no   *)
(* request at all, neither to the API nor to the token endpoint, whether   *)
(* or not a token was cached when it began.                                *)
C13_ValidationBeforeNetwork ==
    (Finished /\ result.kind = "raised" /\ result.exc = "ValueError"
        /\ result.status = -1)
    => log = <<>>

C15_PreconditionFailed ==
    /\ (op = "update_item" /\ response.status = 412)
            => (pc = "Done" /\ result.kind = "returned")
    /\ (op = "update_item" /\ pc = "Done")
            => (result.value = None <=> response.status = 412)

C15_Witness ==
    /\ op = "update_item" /\ response.status = 412
    /\ pc = "Done" /\ result.value = None /\ log[Len(log)].bearer = "t1"

(* C16: get_token called on a client that holds a token sends nothing to   *)
(* the token endpoint: it returns the token held, which stays as it was.   *)
C16_CachedTokenReturned ==
    (op = "get_token" /\ token0 # None) =>
    /\ pc = "Done"
    /\ result = Returned(token0)
    /\ token = token0
    /\ log # <<>> => log[Len(log)].ack # "pending"

(* C17: when the token endpoint answers 2xx with a body that holds no      *)
(* access_token, the call raises Exception (the library's error for a      *)
(* failed authentication) and the token field is what it was when the call *)
(* began, None or not.                                                     *)
TokenAnswer ==
    /\ response.status # -1
    /\ Len(log) > 0
    /\ log[Len(log)].kind = "token"
    /\ log[Len(log)].ack = "2xx"

C17_NoFieldNoCache ==
    (TokenAnswer /\ ~response.flag) =>
    /\ pc = "Failed"
    /\ result.kind = "raised" /\ result.exc = "Exception"
    /\ token = token0

C17_Witness ==
    /\ op = "get_token" /\ token0 = "t1"
    /\ TokenAnswer /\ ~response.flag
    /\ pc = "Failed" /\ token = "t1"

(* C18: an API request answered 401 makes the call raise (PermissionError  *)
(* where the operation translates, the HTTP error otherwise) with no       *)
(* further request and the token untouched; a call begun with a token held *)
(* sends that token and no exchange; the token changes only when the       *)
(* caller resets it or calls for an exchange with none held or directly.   *)
ApiWaiting == pc \in {"drive_req", "mail_req"}

C18_Step ==
    /\ (ApiWaiting /\ response'.status = 401) =>
            /\ pc' = "Failed"
            /\ result'.kind = "raised" /\ result'.status = 401
            /\ result'.exc = IF op = "get_item" THEN "HTTPStatusError" ELSE "PermissionError"
            /\ token' = token
            /\ Len(log') = Len(log)
    /\ (pc = "NotStarted" /\ token # None /\ op' \notin {"none", "get_token"}) =>
            /\ token' = token
            /\ \A i \in (Len(log) + 1)..Len(log') :
                    log'[i].kind # "token" /\ log'[i].bearer = token
    /\ token' # token =>
            \/ pc = "NoClient"
            \/ pc = "NotStarted" /\ token' = None /\ op' = "none"
            \/ pc \in {"drive_token", "mail_token"} /\ token = None
            \/ pc = "token_req"

C18_StaleTokenKept == [][C18_Step]_vars

C18_Witness ==
    /\ calls = 2 /\ op = "list_messages" /\ pc = "Failed"
    /\ response.status = 401 /\ result.exc = "PermissionError"
    /\ token0 = "t1" /\ token = "t1"
    /\ Len(log) = 3 /\ Count("token") = 1
    /\ log[2].kind = "update_item" /\ log[2].bearer = "t1" /\ log[2].ack = "error"
    /\ log[3].bearer = "t1"

(* C19: with two calls running together on a client, the token held is    *)
(* always the one returned by the exchange that completed last (None       *)
(* before any completes), and every API request sent carries a token,      *)
(* never None, that one of the completed exchanges returned.               *)
C19_LastWriteWins ==
    /\ Exchanged = {} => token = None
    /\ Exchanged # {} =>
            \E t \in Exchanged :
                tasks[t].nth = Cardinality(Exchanged) /\ token = tasks[t].got
    /\ \A t \in TaskIds :
            tasks[t].sent # Unset =>
                /\ tasks[t].sent # None
                /\ tasks[t].sent \in {tasks[u].got : u \in Exchanged}

C19_Witness ==
    /\ \A t \in TaskIds : tasks[t].observed /\ tasks[t].pc = "Done"
    /\ tasks[1].got = "t1" /\ tasks[1].nth = 1
    /\ tasks[2].got = "t2" /\ tasks[2].nth = 2
    /\ tasks[1].sent = "t2" /\ tasks[2].sent = "t2"
    /\ token = "t2"

(* C20: construction with client_id, client_secret or tenant_id None or    *)
(* empty raises ValueError with nothing sent and no token attribute set,   *)
(* and nothing can be done with what it leaves; with the three non-empty   *)
(* it gives a client whose token is None.                                  *)
Missing(c) == ~Truthy(c.client_id) \/ ~Truthy(c.client_secret) \/ ~Truthy(c.tenant_id)

C20_Step ==
    /\ pc = "NoClient" =>
            IF Missing(config')
            THEN /\ pc' = "ConfigError"
                 /\ result'.kind = "raised" /\ result'.exc = "ValueError"
                 /\ token' = Unset
                 /\ log' = <<>>
            ELSE /\ pc' = "NotStarted"
                 /\ token' = None
                 /\ log' = <<>>
    /\ pc # "ConfigError"

C20_Construction == [][C20_Step]_vars

C20_Witness ==
    /\ pc = "ConfigError"
    /\ config.client_id = "c1" /\ config.client_secret = "c1" /\ config.tenant_id = ""
    /\ token = Unset /\ log = <<>> /\ result.exc = "ValueError"

(* C26: a drive operation called with exactly one of drive_id, user_id,    *)
(* group_id, site_id (any value but None) that passes validation sends its *)
(* request under the base path of that identifier, and never goes on with  *)
(* an unbound path.                                                        *)
ScopeBase(a) ==
    IF a.drive_id # None THEN <<"drives", a.drive_id>>
    ELSE IF a.user_id # None THEN <<"users", a.user_id, "drive">>
    ELSE IF a.group_id # None THEN <<"groups", a.group_id, "drive">>
    ELSE <<"sites", a.site_id, "drive">>

StartsWith(url, base) ==
    Len(url) >= Len(base) /\ SubSeq(url, 1, Len(base)) = base

C26_OneScopeResolved ==
    (op \in ScopedOps /\ Cardinality(Identifiers(args)) = 1) =>
    /\ \A i \in ApiRequests : StartsWith(log[i].url, ScopeBase(args))
    /\ result.exc # "UnboundLocalError"

(* C27: get_item called with site_id, list_id and item_id on a client that *)
(* holds a token sends its GET to                                          *)
(* /sites/{site_id}/lists/{list_id}/items/{item_id}/driveItem.             *)
C27_ListItemUrl ==
    (op = "get_item" /\ token0 # None /\ Identifiers(args) = {"site_id"}
        /\ args.site_id = "s1" /\ args.list_id = "l1" /\ args.item_id = "i1"
        /\ args.item_path = None)
    => /\ ApiRequests # {}
       /\ \A i \in ApiRequests :
            log[i].url = <<"sites", "s1", "lists", "l1", "items", "i1", "driveItem">>

(* C28: an add_attachment call that succeeds returns the created           *)
(* attachment, whichever strategy carried the payload.                     *)
C28_ReturnsAttachment ==
    (IsAttach /\ ValidCall(args) /\ pc = "Done") => result.value = "attachment"

(* C29: with client credentials, add_attachment called without user_id and *)
(* with arguments valid otherwise                                          *)
(* fails with ValueError and sends no request to a path under /me,         *)
(* whatever the size of the payload.                                       *)
C29_NoUserNoMePath ==
    (IsAttach /\ ~is_delegated /\ ValidSource(args) /\ args.message_id # ""
        /\ args.user_id = None) =>
    /\ \A i \in ApiRequests : log[i].url[1] # "me"
    /\ Finished => (result.kind = "raised" /\ result.exc = "ValueError")

(* C21: an API answer with status 401, 403, 404, 413 or 504 makes the call *)
(* raise an exception that is not ValueError (the validation error) and    *)
(* not the one the same operation raises for another of the five statuses. *)
ApiAnswered ==
    /\ response.status # -1
    /\ Len(log) > 0
    /\ log[Len(log)].kind # "token"
    /\ log[Len(log)].ack # "pending"

NamedStatuses == {401, 403, 404, 413, 504}

\* what the request of this kind answered with status makes the call raise
ExcOf(kind, status) ==
    IF kind = "attach" THEN RawError(status, FALSE).exc
    ELSE IF kind \in {"negotiate", "chunk"} THEN SessionError(status).exc
    ELSE IF kind \in MailOps THEN MailExcept(kind, status, "").exc
    ELSE DriveExcept(kind, status, FALSE).exc

C21_DistinctCategories ==
    (ApiAnswered /\ response.status \in NamedStatuses) =>
    /\ result.kind = "raised"
    /\ result.exc # "ValueError"
    /\ \A st \in NamedStatuses \ {response.status} :
            result.exc # ExcOf(log[Len(log)].kind, st)

(* C22: a 400 whose body speaks of insufficient privileges makes the call  *)
(* raise PermissionError, a 400 with no known text raises the HTTP error,  *)
(* and for any other failure status the exception is the one the status    *)
(* alone gives, whatever the body says.                                    *)
C22_StatusThenText ==
    ApiAnswered =>
    /\ (response.status = 400 /\ response.text = "insufficient privileges")
            => (result.kind = "raised" /\ result.exc = "PermissionError")
    /\ (response.status = 400 /\ response.text = "")
            => (result.kind = "raised" /\ result.exc = "HTTPStatusError")
    /\ (response.status \notin {400, 304, 412, TransportFailure}
            /\ ~IsSuccess(response.status))
            => (result.kind = "raised"
                /\ result.exc = ExcOf(log[Len(log)].kind, response.status))

(* C23: an API answer that is not 2xx and whose status has no category of  *)
(* its own (not 304, 401, 403, 404, 412, 413 or 504, and a 400 only when   *)
(* its body has no known text) makes the call raise the HTTP error with    *)
(* that status; the call never returns a value on such an answer.          *)
Uncategorised ==
    /\ ~IsSuccess(response.status)
    /\ response.status # TransportFailure
    /\ response.status \notin {304, 401, 403, 404, 412, 413, 504}
    /\ response.status = 400 => response.text = ""

C23_UnknownStatusPropagates ==
    (ApiAnswered /\ Uncategorised) =>
    /\ pc = "Failed"
    /\ result = Raised("HTTPStatusError", response.status)

C23_Witness ==
    /\ op = "send_message" /\ token0 = None /\ Len(log) = 2
    /\ ApiAnswered /\ response.status = 429
    /\ pc = "Failed" /\ result.exc = "HTTPStatusError" /\ result.status = 429

(* C24: every operation of the non-blocking client is an operation of the  *)
(* blocking client too: no call fails for want of the method.              *)
C24_SameOperations ==
    op \in ClientDriveOps => result.exc # "AttributeError"

(* C25: of two session transfers running together, each sends its chunks   *)
(* to the uploadUrl of its own session only, at offsets 0, 4 MiB, 8 MiB... *)
(* in that order, each range once, the last one ending at S - 1 when it is *)
(* done; and it is done or failed by the answers to its own requests,      *)
(* whatever became of the other.                                           *)
XferChunks(t) == SubSeq(tasks[t].sent, 2, Len(tasks[t].sent))

OwnRequests(t) ==
    LET me == tasks[t]
        mine == XferChunks(t)
    IN /\ \A k \in 1..Len(mine) :
            /\ log[mine[k]].kind = "chunk"
            /\ log[mine[k]].url = <<UploadUrl(t)>>
            /\ log[mine[k]].start = (k - 1) * chunk_size
            /\ log[mine[k]].end = Min(k * chunk_size, me.a.file_size) - 1
            /\ log[mine[k]].total = me.a.file_size
            /\ k < Len(mine) => (mine[k] < mine[k + 1] /\ log[mine[k]].ack = "2xx")
       /\ me.pc = "Done" =>
            /\ Len(mine) = CeilDiv(me.a.file_size, chunk_size)
            /\ \A k \in 1..Len(me.sent) : log[me.sent[k]].ack = "2xx"
       /\ (me.pc = "Failed" /\ me.result.exc # "KeyError") =>
            log[me.sent[Len(me.sent)]].ack = "error"
       /\ (me.sent # <<>> /\ log[me.sent[Len(me.sent)]].ack = "error") => me.pc = "Failed"

C25_IndependentTransfers ==
    /\ \A t \in TaskIds : tasks[t].pc # "idle" => OwnRequests(t)
    /\ \A i \in 1..Len(log) :
            Cardinality({t \in TaskIds : \E k \in 1..Len(tasks[t].sent) : tasks[t].sent[k] = i}) = 1

C25_Witness ==
    /\ tasks[1].pc = "Done" /\ tasks[1].a.file_size = 2 * chunk_size + 1
    /\ tasks[2].pc = "Failed" /\ tasks[2].a.file_size = chunk_size + 1
    /\ Len(XferChunks(2)) = 2
    /\ tasks[1].sent = <<2, 3, 5, 7>>
    /\ tasks[2].sent = <<1, 4, 6>>

(* C30: an add_attachment call, whatever the size of its payload and       *)
(* whatever the answers, issues at most ceil(S / 4 MiB) + 1 requests and   *)
(* at most one token exchange, and, its requests being answered, ends in   *)
(* Done or Failed.                                                         *)
C30_RequestBound ==
    (IsAttach /\ pc # "NotStarted") =>
        /\ Cardinality(ApiRequests) <= CeilDiv(args.file_size, chunk_size) + 1
        /\ Count("token") <= 1

C30_Terminates ==
    /\ []C30_RequestBound
    /\ (IsAttach /\ pc # "NotStarted") ~> Finished

C30_Witness ==
    /\ IsAttach /\ pc = "Done"
    /\ args.file_size = SessionCap
    /\ Count("token") = 1
    /\ Cardinality(ApiRequests) = CeilDiv(SessionCap, chunk_size) + 1

====
